---------------------------- MODULE Spec2Model ----------------------------
(***************************************************************************)
(* A model of the terminal analog clock of src/src/clock.rs: the render    *)
(* loop run_clock (polling, key handling, resize handling, drawing,        *)
(* diffing, printing), the frame differencer Matrix::diff, the aspect      *)
(* ratio arithmetic in f32, the hand angles computed by draw_clock, the    *)
(* order of its drawing steps, Matrix::rescale, the geometry of            *)
(* draw_circle and draw_hand in f32, and the terminal screen.              *)
(***************************************************************************)
EXTENDS Integers, Sequences, FiniteSets

(***************************************************************************)
(* Bounds of the model.                                                    *)
(***************************************************************************)
\* A terminal has width * height <= MaxCells character cells.
MaxCells == 4
\* The drawing steps are followed, raster by raster, on terminals of at
\* most MaxDrawnCells character cells.
MaxDrawnCells == 2
\* At most MaxQueue resize events wait to be read.
MaxQueue == 1
\* The `+` key is followed while the ratio is below 2.0 + MaxPlus * 0.1.
MaxPlus == 1
\* The largest width and height of a matrix whose geometry is drawn.
MaxSide == 6

(***************************************************************************)
(* f32 values of the aspect ratio.  Every value the aspect ratio takes is  *)
(* a multiple of 2^-27 (0.1f32 = 13421773 * 2^-27), so an f32 is held as   *)
(* the integer number of 2^-27 units, and an addition is the exact sum     *)
(* rounded to the nearest f32, ties to even, as IEEE 754 does.             *)
(***************************************************************************)
\* 0.1f32, clock.rs:70 and :75
Tenth == 13421773
\* 1.0f32, clock.rs:74
One == 134217728
\* 2.0f32, clock.rs:56 and :80
Two == 268435456
\* 2^24: an f32 has a 24 bit significand
Significand == 16777216

RECURSIVE F32Ulp(_, _)
F32Ulp(v, p) == IF v \div p < Significand THEN p ELSE F32Ulp(v, 2 * p)

F32RoundMag(v) ==
    LET p == F32Ulp(v, 1)
        q == v \div p
        r == v % p
    IN  IF 2 * r > p \/ (2 * r = p /\ q % 2 = 1) THEN (q + 1) * p ELSE q * p

F32Round(v) == IF v < 0 THEN 0 - F32RoundMag(0 - v) ELSE F32RoundMag(v)

F32Add(a, b) == F32Round(a + b)

F32Sub(a, b) == F32Round(a - b)

(***************************************************************************)
(* f32 values of the hand angles.  A non-negative f32 is held as <<m, e>>, *)
(* the value m * 2^e with 2^23 <= m < 2^24, and zero as <<0, 0>>.  Every   *)
(* operation is the exact result rounded to nearest, ties to even.         *)
(***************************************************************************)
F32Zero == <<0, 0>>

RECURSIVE Pow2(_)
Pow2(n) == IF n = 0 THEN 1 ELSE 2 * Pow2(n - 1)

RECURSIVE Log2(_)
\* For a power of two.
Log2(p) == IF p = 1 THEN 0 ELSE 1 + Log2(p \div 2)

RECURSIVE F32Norm(_, _)
\* m * 2^e, for 0 < m < 2^24, with the significand shifted up to 24 bits.
F32Norm(m, e) ==
    IF m >= Significand \div 2 THEN <<m, e>> ELSE F32Norm(2 * m, e - 1)

\* `n as f32`, for an integer 0 <= n < 2^24.
F32FromInt(n) == IF n = 0 THEN F32Zero ELSE F32Norm(n, 0)

\* The f32 nearest to big * 2^e (plus a non-zero part below the last bit of
\* big when sticky = 1), for big >= 2^23.
F32Pack(big, e, sticky) ==
    LET p  == F32Ulp(big, 1)
        q  == big \div p
        r  == big % p
        up == 2 * r > p \/ (2 * r = p /\ (sticky = 1 \/ q % 2 = 1))
        q1 == IF up THEN q + 1 ELSE q
    IN  IF q1 = Significand
        THEN <<Significand \div 2, e + Log2(p) + 1>>
        ELSE <<q1, e + Log2(p)>>

RECURSIVE F32DivLoop(_, _, _, _)
\* Long division: quotient bits are produced until the quotient has 25.
F32DivLoop(q, r, e, c) ==
    IF q >= Significand THEN <<q, r, e>>
    ELSE F32DivLoop(2 * q + (IF 2 * r >= c THEN 1 ELSE 0), (2 * r) % c, e - 1, c)

\* x / (c as f32), for an integer 2 <= c < 2^24.
F32DivInt(x, c) ==
    IF x[1] = 0 THEN F32Zero
    ELSE LET d == F32DivLoop(x[1] \div c, x[1] % c, x[2], c)
         IN  F32Pack(d[1], d[3], IF d[2] = 0 THEN 0 ELSE 1)

\* x * 360.0: 360 = 45 * 2^3.
F32Mul360(x) ==
    IF x[1] = 0 THEN F32Zero ELSE F32Pack(x[1] * 45, x[2] + 3, 0)

\* x + y: the significands are aligned with five guard bits; what is shifted
\* out of the smaller operand is kept as a sticky bit.
F32AddPos(x, y) ==
    IF x[1] = 0 THEN y
    ELSE IF y[1] = 0 THEN x
    ELSE LET hi == IF x[2] >= y[2] THEN x ELSE y
             lo == IF x[2] >= y[2] THEN y ELSE x
             d  == hi[2] - lo[2]
         IN  IF d <= 5
             THEN F32Pack(hi[1] * Pow2(d) + lo[1], lo[2], 0)
             ELSE IF d - 5 >= 24
             THEN F32Pack(hi[1] * 32, hi[2] - 5, 1)
             ELSE F32Pack(hi[1] * 32 + lo[1] \div Pow2(d - 5), hi[2] - 5,
                          IF lo[1] % Pow2(d - 5) = 0 THEN 0 ELSE 1)

\* x < y for two f32 values.
F32Less(x, y) ==
    IF y[1] = 0 THEN FALSE
    ELSE IF x[1] = 0 THEN TRUE
    ELSE x[2] < y[2] \/ (x[2] = y[2] /\ x[1] < y[1])

\* f32::min for two magnitudes.
F32Min(x, y) == IF F32Less(y, x) THEN y ELSE x

\* The literal 1.1 as f32.
Literal_1_1 == <<9227469, 0 - 23>>

\* x / 1.1 for a magnitude: 1.1f32 = 9227469 * 2^-23.
F32DivLiteral_1_1(x) ==
    LET q == F32DivInt(x, Literal_1_1[1])
    IN  IF q[1] = 0 THEN F32Zero ELSE <<q[1], q[2] - Literal_1_1[2]>>

(***************************************************************************)
(* Matrix: the frame.  cells[y][x], row 0 at the top, indices from 0.      *)
(***************************************************************************)
None == "None"

\* clock.rs:209-211: the fields of a Matrix that hold f32 values.
midpoint_x(m) == m.midpoint_x

midpoint_y(m) == m.midpoint_y

circle_radius(m) == m.circle_radius

\* clock.rs:215-226: midpoint_x = (width as f32) / 2.0, midpoint_y =
\* (height as f32) / 2.0, circle_radius = midpoint_x.min(midpoint_y) / 1.1.
Matrix_new(width, height) ==
    LET mx == F32DivInt(F32FromInt(width), 2)
        my == F32DivInt(F32FromInt(height), 2)
    IN  [width  |-> width,
         height |-> height,
         cells  |-> [y \in 0 .. height - 1 |-> [x \in 0 .. width - 1 |-> None]],
         midpoint_x    |-> mx,
         midpoint_y    |-> my,
         circle_radius |-> F32DivLiteral_1_1(F32Min(mx, my))]

\* The value of a moved-out binding (new_matrix before draw_clock has run
\* and after it has been moved into current_matrix).
NoMatrix ==
    [width |-> 0, height |-> 0, cells |-> <<>>,
     midpoint_x |-> F32Zero, midpoint_y |-> F32Zero, circle_radius |-> F32Zero]

generate_points(width, height) ==
    [i \in 1 .. width * height |-> <<(i - 1) % width, (i - 1) \div width>>]

DimensionMismatch(old, new) ==
    old.width # new.width \/ old.height # new.height

\* Mutant of Matrix_diff: an update carries the old cell, not the new one.
Matrix_diff_old_cell(old, new) ==
    LET points  == generate_points(old.width, old.height)
        changed == SelectSeq(points,
                       LAMBDA p : old.cells[p[2]][p[1]] # new.cells[p[2]][p[1]])
    IN  [i \in 1 .. Len(changed) |->
            [x |-> changed[i][1], y |-> changed[i][2],
             cell |-> old.cells[changed[i][2]][changed[i][1]]]]

\* clock.rs:331-363, for frames of equal dimensions: the points in row-major
\* order, filtered to those whose cell differs, each with the new cell.
Matrix_diff(old, new) ==
    LET points  == generate_points(old.width, old.height)
        changed == SelectSeq(points,
                       LAMBDA p : old.cells[p[2]][p[1]] # new.cells[p[2]][p[1]])
    IN  [i \in 1 .. Len(changed) |->
            [x |-> changed[i][1], y |-> changed[i][2],
             cell |-> new.cells[changed[i][2]][changed[i][1]]]]

(***************************************************************************)
(* draw_clock: the logical clock width, and the terminals it runs on.      *)
(***************************************************************************)
RECURSIVE HalfUlpDivisor(_, _, _)
\* 2^(24-k) for m in (2^k, 2^(k+1)]: 1 / (half an ulp of the f32 below m).
HalfUlpDivisor(m, top, d) ==
    IF m <= top THEN d ELSE HalfUlpDivisor(m, 2 * top, d \div 2)

\* (screen_width as f32) / aspect_ratio, then `as usize`: the f32 quotient is
\* the exact quotient rounded to nearest, so it truncates to floor(W / a)
\* unless the exact quotient lies within half an ulp below the next integer.
\* Defined for aspect_ratio > 0.
ClockWidth(screen_width, ratio) ==
    LET n == (screen_width * One) \div ratio
        d == (n + 1) * ratio - screen_width * One
    IN  IF d <= ratio \div HalfUlpDivisor(n + 1, 1, 2 * Significand)
        THEN n + 1 ELSE n

TermSizes ==
    {s \in (1 .. MaxCells) \X (1 .. MaxCells) : s[1] * s[2] <= MaxCells}

(***************************************************************************)
(* draw_clock: the hand angles.                                            *)
(***************************************************************************)
\* Mutant of HandDegrees: the hour is not reduced modulo 12.
HandDegrees24(dt, tick) ==
    LET second0 == F32FromInt(dt.second)
        minute  == F32FromInt(dt.minute)
        hour    == F32FromInt(dt.hour)
        second  == IF tick < 1000
                   THEN F32AddPos(second0, F32DivInt(F32FromInt(dt.millisecond), 1000))
                   ELSE second0
    IN  [second |-> F32Mul360(F32DivInt(second, 60)),
         minute |-> F32Mul360(F32DivInt(F32AddPos(minute, F32DivInt(second, 60)), 60)),
         hour   |-> F32Mul360(F32DivInt(F32AddPos(hour, F32DivInt(minute, 60)), 12))]

\* clock.rs:151-163: degree_second, degree_minute and degree_hour, for the
\* local time dt (millisecond = timestamp_millis() % 1000) and the tick
\* interval in milliseconds.
HandDegrees(dt, tick) ==
    LET second0 == F32FromInt(dt.second)
        minute  == F32FromInt(dt.minute)
        hour    == F32FromInt(dt.hour % 12)
        second  == IF tick < 1000
                   THEN F32AddPos(second0, F32DivInt(F32FromInt(dt.millisecond), 1000))
                   ELSE second0
    IN  [second |-> F32Mul360(F32DivInt(second, 60)),
         minute |-> F32Mul360(F32DivInt(F32AddPos(minute, F32DivInt(second, 60)), 60)),
         hour   |-> F32Mul360(F32DivInt(F32AddPos(hour, F32DivInt(minute, 60)), 12))]

\* The local times and tick intervals the angles are computed for.
Hours == 0 .. 23
Minutes == 0 .. 59
Seconds == {0, 1, 29, 30, 59}
Milliseconds == {0, 1, 500, 999}
TickIntervals == {100, 999, 1000, 2000}

DateTime(h, m, s, ms) == [hour |-> h, minute |-> m, second |-> s, millisecond |-> ms]

NoDateTime == DateTime(0, 0, 0, 0)

NoDegree == [second |-> <<0 - 1, 0>>, minute |-> <<0 - 1, 0>>, hour |-> <<0 - 1, 0>>]

(***************************************************************************)
(* draw_clock: the drawing steps.                                          *)
(***************************************************************************)
\* theme.rs:43-49, the theme "nord-frost".
Theme == [hour |-> "#5E81AC", minute |-> "#81A1C1", second |-> "#88C0D0",
          clock_face |-> "#8FBCBB"]

\* clock.rs:144: the colour of the minute labels.
MinuteLabelColor == "#4C566A"

\* clock.rs:119-194: the drawing steps in the order of the code.
Steps == <<"circle", "hour_labels", "minute_labels", "minute_hand", "hour_hand",
           "second_hand">>

\* Mutant of StepAfter: the hour hand is drawn before the minute hand.
StepAfterHourFirst(step) ==
    CASE step = "circle" -> "hour_labels"
      [] step = "hour_labels" -> "minute_labels"
      [] step = "minute_labels" -> "hour_hand"
      [] step = "hour_hand" -> "minute_hand"
      [] step = "minute_hand" -> "second_hand"
      [] step = "second_hand" -> "rescale"

\* clock.rs:119-197: the step that follows a step.
StepAfter(step) ==
    CASE step = "circle" -> "hour_labels"
      [] step = "hour_labels" -> "minute_labels"
      [] step = "minute_labels" -> "minute_hand"
      [] step = "minute_hand" -> "hour_hand"
      [] step = "hour_hand" -> "second_hand"
      [] step = "second_hand" -> "rescale"

\* clock.rs:119, 129, 144, 171, 180, 190: the colour a step draws in.
StepColor(step) ==
    CASE step = "circle" -> Theme.clock_face
      [] step = "hour_labels" -> Theme.clock_face
      [] step = "minute_labels" -> MinuteLabelColor
      [] step = "minute_hand" -> Theme.minute
      [] step = "hour_hand" -> Theme.hour
      [] step = "second_hand" -> Theme.second

\* clock.rs:122, 137, 184: whether a step is drawn at all.
StepEnabled(step, opts) ==
    CASE step = "hour_labels" -> opts.show_hour_labels
      [] step = "minute_labels" -> opts.show_minute_labels
      [] step = "second_hand" -> opts.show_second_hand
      [] OTHER -> TRUE

RECURSIVE draw_using_points(_, _)
\* clock.rs:390-395: every point overwrites its cell, in the order of the list.
draw_using_points(m, points) ==
    IF points = <<>> THEN m
    ELSE draw_using_points(
             [m EXCEPT !.cells[Head(points).y][Head(points).x] = Head(points).color],
             Tail(points))

RECURSIVE PointList(_, _)
\* clock.rs:294-304: the Point values of rasterised positions, in some order.
PointList(positions, color) ==
    IF positions = {} THEN <<>>
    ELSE LET p == CHOOSE q \in positions : TRUE
         IN  <<[x |-> p[1], y |-> p[2], color |-> color]>>
                 \o PointList(positions \ {p}, color)

\* The sets of positions of the grid a step can rasterise: any (a line of
\* equal end points and a circle of radius 0 have no point).
Rasters(m, step) == SUBSET ((0 .. m.width - 1) \X (0 .. m.height - 1))

\* clock.rs:21-30: the visibility flags.
Options(second_hand, hour_labels, minute_labels) ==
    [show_second_hand |-> second_hand, show_hour_labels |-> hour_labels,
     show_minute_labels |-> minute_labels]

NoOptions == Options(FALSE, FALSE, FALSE)

StepNames == {Steps[i] : i \in DOMAIN Steps}

NoLayers == [step \in StepNames |-> {}]

(***************************************************************************)
(* Matrix::rescale: the matrix becomes an image, the image is resized to   *)
(* the screen width with the nearest-neighbour filter, and the image       *)
(* becomes the cells again.                                                *)
(***************************************************************************)
\* clock.rs:421, 432: the pixel that stands for an empty cell.
White == "#FFFFFF"

\* clock.rs:411-424: the pixel of a cell.
matrix_to_luma_image_buffer(m) ==
    [y \in 0 .. m.height - 1 |->
        [x \in 0 .. m.width - 1 |->
            IF m.cells[y][x] = None THEN White ELSE m.cells[y][x]]]

\* floor(x) for a non-negative f32.
F32Floor(x) ==
    IF x[1] = 0 THEN 0
    ELSE IF x[2] >= 0 THEN x[1] * Pow2(x[2])
    ELSE IF 0 - x[2] >= 24 THEN 0
    ELSE x[1] \div Pow2(0 - x[2])

\* image::imageops::resize with FilterType::Nearest (support 0): the source
\* column sampled for output column x is floor((x + 0.5) * ratio) with
\* ratio = width / new_width, all in f32, clamped to the source.
\* For 1 <= width and x < 64.
SourceColumn(x, width, new_width) ==
    LET ratio  == F32DivInt(F32FromInt(width), new_width)
        inputx == F32Pack(ratio[1] * (2 * x + 1), ratio[2] - 1, 0)
        left   == F32Floor(inputx)
    IN  IF left > width - 1 THEN width - 1 ELSE left

\* The pixel of a new ImageBuffer: all channels zero.
Black == "#000000"

\* The colours a cell of a frame can carry (Cell.color): those of the theme,
\* that of the minute labels, and that of a pixel nothing was sampled for.
Colors ==
    {Theme.clock_face, Theme.hour, Theme.minute, Theme.second, MinuteLabelColor, Black}

CellValues == {None} \cup Colors

\* clock.rs:316-321: resize(&img, screen_width, self.height, Nearest).  An
\* image without columns has nothing to sample: the pixels of the new
\* buffer stay zero.
resize(img, width, height, new_width) ==
    [y \in 0 .. height - 1 |->
        [x \in 0 .. new_width - 1 |->
            IF width = 0 THEN Black ELSE img[y][SourceColumn(x, width, new_width)]]]

\* clock.rs:426-441: a white pixel is an empty cell, any other a coloured one.
luma_image_buffer_to_matrix(img) ==
    [y \in DOMAIN img |-> [x \in DOMAIN img[y] |->
        IF img[y][x] = White THEN None ELSE img[y][x]]]

\* Mutant of rescale: the width field is left as it was.
rescale_keeps_width(m, screen_width) ==
    [m EXCEPT
        !.cells = luma_image_buffer_to_matrix(
                      resize(matrix_to_luma_image_buffer(m), m.width, m.height, screen_width))]

\* clock.rs:314-327: the cells and the width are new, the other fields
\* (height, midpoint_x, midpoint_y, circle_radius) are those of self.
rescale(m, screen_width) ==
    [m EXCEPT
        !.cells = luma_image_buffer_to_matrix(
                      resize(matrix_to_luma_image_buffer(m), m.width, m.height, screen_width)),
        !.width = screen_width]

(***************************************************************************)
(* Signed f32 arithmetic of the drawing routines.  A signed f32 is         *)
(* <<sign, magnitude>> with sign 1 or -1 and the magnitude <<m, e>> as     *)
(* above.                                                                  *)
(***************************************************************************)
\* x * y for two magnitudes: the 48-bit product of the significands is built
\* from 12-bit halves as hi * 2^24 + lo and rounded once.
F32Mul(x, y) ==
    IF x[1] = 0 \/ y[1] = 0 THEN F32Zero
    ELSE LET a1  == x[1] \div 4096
             a0  == x[1] % 4096
             b1  == y[1] \div 4096
             b0  == y[1] % 4096
             mid == a1 * b0 + a0 * b1
             t   == (mid % 4096) * 4096 + a0 * b0
             hi  == a1 * b1 + mid \div 4096 + t \div Significand
             lo  == t % Significand
         IN  F32Pack(hi * 4 + lo \div 4194304, x[2] + y[2] + 22,
                     IF lo % 4194304 = 0 THEN 0 ELSE 1)

\* x - y for two magnitudes with x >= y: five guard bits; when bits of y are
\* shifted out the difference is one less, plus a non-zero part.
F32SubPos(x, y) ==
    IF y[1] = 0 THEN x
    ELSE LET d == x[2] - y[2]
         IN  IF d <= 5
             THEN LET big == x[1] * Pow2(d) - y[1]
                  IN  IF big = 0 THEN F32Zero
                      ELSE IF big < Significand \div 2 THEN F32Norm(big, y[2])
                      ELSE F32Pack(big, y[2], 0)
             ELSE IF d - 5 >= 24
             THEN F32Pack(x[1] * 32 - 1, x[2] - 5, 1)
             ELSE LET cut     == Pow2(d - 5)
                      inexact == IF y[1] % cut = 0 THEN 0 ELSE 1
                  IN  F32Pack(x[1] * 32 - y[1] \div cut - inexact, x[2] - 5, inexact)

F32Positive(mag) == <<1, mag>>

F32Negative(mag) == <<0 - 1, mag>>

\* a + b for two signed f32 values; an exact sum of zero of two values of
\* opposite signs is +0.0.
F32AddSigned(a, b) ==
    IF a[1] = b[1] THEN <<a[1], F32AddPos(a[2], b[2])>>
    ELSE IF a[2] = b[2] THEN <<1, F32Zero>>
    ELSE IF F32Less(a[2], b[2]) THEN <<b[1], F32SubPos(b[2], a[2])>>
    ELSE <<a[1], F32SubPos(a[2], b[2])>>

\* a * b for two signed f32 values.
F32MulSigned(a, b) == <<a[1] * b[1], F32Mul(a[2], b[2])>>

\* `a as isize`, `a as i32`: truncation towards zero.
F32Trunc(a) == a[1] * F32Floor(a[2])

\* 1.0
F32One == <<Significand \div 2, 0 - 23>>

\* std::f32::consts::PI = 13176795 * 2^-22.
PI == <<13176795, 0 - 22>>

\* f32::to_radians: self * (PI / 180.0).
to_radians(deg) == F32Mul(deg, F32DivInt(PI, 180))

\* The literals 0.9, 0.5, 0.15, 0.05 as f32.
Literal_0_9 == <<15099494, 0 - 24>>

Literal_0_5 == <<Significand \div 2, 0 - 24>>

Literal_0_15 == <<10066330, 0 - 26>>

Literal_0_05 == <<13421773, 0 - 28>>

\* f32::cos and f32::sin at the radians draw_clock takes them at
\* (radian = PI / 2.0 - degree.to_radians()): the sixty directions n * 6
\* degrees of the labels and of the hands at full seconds and minutes, and
\* the minute hand's directions at 00:00:01, 00:00:16 and 00:00:30.
Trig ==
    { [radian |-> <<1, <<13176795, 0 - 23>>>>,
       cos |-> <<0 - 1, <<12303662, 0 - 48>>>>, sin |-> <<1, <<8388608, 0 - 23>>>>],
      [radian |-> <<1, <<13162154, 0 - 23>>>>,
       cos |-> <<1, <<14992001, 0 - 33>>>>, sin |-> <<1, <<16777190, 0 - 24>>>>],
      [radian |-> <<1, <<12942541, 0 - 23>>>>,
       cos |-> <<1, <<14990284, 0 - 29>>>>, sin |-> <<1, <<16770675, 0 - 24>>>>],
      [radian |-> <<1, <<12737568, 0 - 23>>>>,
       cos |-> <<1, <<14048831, 0 - 28>>>>, sin |-> <<1, <<16754223, 0 - 24>>>>],
      [radian |-> <<1, <<12298342, 0 - 23>>>>,
       cos |-> <<1, <<14029567, 0 - 27>>>>, sin |-> <<1, <<16685309, 0 - 24>>>>],
      [radian |-> <<1, <<11419889, 0 - 23>>>>,
       cos |-> <<1, <<13952715, 0 - 26>>>>, sin |-> <<1, <<16410594, 0 - 24>>>>],
      [radian |-> <<1, <<10541436, 0 - 23>>>>,
       cos |-> <<1, <<10368889, 0 - 25>>>>, sin |-> <<1, <<15956081, 0 - 24>>>>],
      [radian |-> <<1, <<9662983, 0 - 23>>>>,
       cos |-> <<1, <<13647816, 0 - 25>>>>, sin |-> <<1, <<15326750, 0 - 24>>>>],
      [radian |-> <<1, <<8784530, 0 - 23>>>>,
       cos |-> <<1, <<16777215, 0 - 25>>>>, sin |-> <<1, <<14529496, 0 - 24>>>>],
      [radian |-> <<1, <<15812154, 0 - 24>>>>,
       cos |-> <<1, <<9861400, 0 - 24>>>>, sin |-> <<1, <<13573053, 0 - 24>>>>],
      [radian |-> <<1, <<14055248, 0 - 24>>>>,
       cos |-> <<1, <<11226148, 0 - 24>>>>, sin |-> <<1, <<12467902, 0 - 24>>>>],
      [radian |-> <<1, <<12298341, 0 - 24>>>>,
       cos |-> <<1, <<12467902, 0 - 24>>>>, sin |-> <<1, <<11226148, 0 - 24>>>>],
      [radian |-> <<1, <<10541435, 0 - 24>>>>,
       cos |-> <<1, <<13573053, 0 - 24>>>>, sin |-> <<1, <<9861400, 0 - 24>>>>],
      [radian |-> <<1, <<8784530, 0 - 24>>>>,
       cos |-> <<1, <<14529495, 0 - 24>>>>, sin |-> <<1, <<8388608, 0 - 24>>>>],
      [radian |-> <<1, <<14055248, 0 - 25>>>>,
       cos |-> <<1, <<15326749, 0 - 24>>>>, sin |-> <<1, <<13647817, 0 - 25>>>>],
      [radian |-> <<1, <<10541436, 0 - 25>>>>,
       cos |-> <<1, <<15956081, 0 - 24>>>>, sin |-> <<1, <<10368890, 0 - 25>>>>],
      [radian |-> <<1, <<14055248, 0 - 26>>>>,
       cos |-> <<1, <<16410594, 0 - 24>>>>, sin |-> <<1, <<13952718, 0 - 26>>>>],
      [radian |-> <<1, <<14055248, 0 - 27>>>>,
       cos |-> <<1, <<16685309, 0 - 24>>>>, sin |-> <<1, <<14029573, 0 - 27>>>>],
      [radian |-> <<1, <<0, 0>>>>,
       cos |-> <<1, <<8388608, 0 - 23>>>>, sin |-> <<1, <<0, 0>>>>],
      [radian |-> <<0 - 1, <<14055264, 0 - 27>>>>,
       cos |-> <<1, <<16685308, 0 - 24>>>>, sin |-> <<0 - 1, <<14029589, 0 - 27>>>>],
      [radian |-> <<0 - 1, <<14055240, 0 - 26>>>>,
       cos |-> <<1, <<16410594, 0 - 24>>>>, sin |-> <<0 - 1, <<13952710, 0 - 26>>>>],
      [radian |-> <<0 - 1, <<10541440, 0 - 25>>>>,
       cos |-> <<1, <<15956080, 0 - 24>>>>, sin |-> <<0 - 1, <<10368894, 0 - 25>>>>],
      [radian |-> <<0 - 1, <<14055244, 0 - 25>>>>,
       cos |-> <<1, <<15326750, 0 - 24>>>>, sin |-> <<0 - 1, <<13647814, 0 - 25>>>>],
      [radian |-> <<0 - 1, <<8784530, 0 - 24>>>>,
       cos |-> <<1, <<14529495, 0 - 24>>>>, sin |-> <<0 - 1, <<8388608, 0 - 24>>>>],
      [radian |-> <<0 - 1, <<10541434, 0 - 24>>>>,
       cos |-> <<1, <<13573054, 0 - 24>>>>, sin |-> <<0 - 1, <<9861399, 0 - 24>>>>],
      [radian |-> <<0 - 1, <<12298342, 0 - 24>>>>,
       cos |-> <<1, <<12467901, 0 - 24>>>>, sin |-> <<0 - 1, <<11226149, 0 - 24>>>>],
      [radian |-> <<0 - 1, <<14055246, 0 - 24>>>>,
       cos |-> <<1, <<11226150, 0 - 24>>>>, sin |-> <<0 - 1, <<12467900, 0 - 24>>>>],
      [radian |-> <<0 - 1, <<15812154, 0 - 24>>>>,
       cos |-> <<1, <<9861400, 0 - 24>>>>, sin |-> <<0 - 1, <<13573053, 0 - 24>>>>],
      [radian |-> <<0 - 1, <<8784529, 0 - 23>>>>,
       cos |-> <<1, <<8388609, 0 - 24>>>>, sin |-> <<0 - 1, <<14529495, 0 - 24>>>>],
      [radian |-> <<0 - 1, <<9662983, 0 - 23>>>>,
       cos |-> <<1, <<13647816, 0 - 25>>>>, sin |-> <<0 - 1, <<15326750, 0 - 24>>>>],
      [radian |-> <<0 - 1, <<10541435, 0 - 23>>>>,
       cos |-> <<1, <<10368892, 0 - 25>>>>, sin |-> <<0 - 1, <<15956080, 0 - 24>>>>],
      [radian |-> <<0 - 1, <<11419889, 0 - 23>>>>,
       cos |-> <<1, <<13952715, 0 - 26>>>>, sin |-> <<0 - 1, <<16410594, 0 - 24>>>>],
      [radian |-> <<0 - 1, <<12298341, 0 - 23>>>>,
       cos |-> <<1, <<14029583, 0 - 27>>>>, sin |-> <<0 - 1, <<16685309, 0 - 24>>>>],
      [radian |-> <<0 - 1, <<13176795, 0 - 23>>>>,
       cos |-> <<0 - 1, <<12303662, 0 - 48>>>>, sin |-> <<0 - 1, <<8388608, 0 - 23>>>>],
      [radian |-> <<0 - 1, <<14055247, 0 - 23>>>>,
       cos |-> <<0 - 1, <<14029563, 0 - 27>>>>, sin |-> <<0 - 1, <<16685309, 0 - 24>>>>],
      [radian |-> <<0 - 1, <<14933703, 0 - 23>>>>,
       cos |-> <<0 - 1, <<13952736, 0 - 26>>>>, sin |-> <<0 - 1, <<16410593, 0 - 24>>>>],
      [radian |-> <<0 - 1, <<15812153, 0 - 23>>>>,
       cos |-> <<0 - 1, <<10368888, 0 - 25>>>>, sin |-> <<0 - 1, <<15956081, 0 - 24>>>>],
      [radian |-> <<0 - 1, <<16690605, 0 - 23>>>>,
       cos |-> <<0 - 1, <<13647811, 0 - 25>>>>, sin |-> <<0 - 1, <<15326751, 0 - 24>>>>],
      [radian |-> <<0 - 1, <<8784530, 0 - 22>>>>,
       cos |-> <<0 - 1, <<8388609, 0 - 24>>>>, sin |-> <<0 - 1, <<14529495, 0 - 24>>>>],
      [radian |-> <<0 - 1, <<9223758, 0 - 22>>>>,
       cos |-> <<0 - 1, <<9861406, 0 - 24>>>>, sin |-> <<0 - 1, <<13573049, 0 - 24>>>>],
      [radian |-> <<0 - 1, <<9662982, 0 - 22>>>>,
       cos |-> <<0 - 1, <<11226147, 0 - 24>>>>, sin |-> <<0 - 1, <<12467903, 0 - 24>>>>],
      [radian |-> <<0 - 1, <<10102208, 0 - 22>>>>,
       cos |-> <<0 - 1, <<12467898, 0 - 24>>>>, sin |-> <<0 - 1, <<11226152, 0 - 24>>>>],
      [radian |-> <<0 - 1, <<10541434, 0 - 22>>>>,
       cos |-> <<0 - 1, <<13573049, 0 - 24>>>>, sin |-> <<0 - 1, <<9861406, 0 - 24>>>>],
      [radian |-> <<0 - 1, <<10980662, 0 - 22>>>>,
       cos |-> <<0 - 1, <<14529495, 0 - 24>>>>, sin |-> <<0 - 1, <<8388609, 0 - 24>>>>],
      [radian |-> <<0 - 1, <<11419888, 0 - 22>>>>,
       cos |-> <<0 - 1, <<15326748, 0 - 24>>>>, sin |-> <<0 - 1, <<13647822, 0 - 25>>>>],
      [radian |-> <<0 - 1, <<11859114, 0 - 22>>>>,
       cos |-> <<0 - 1, <<15956079, 0 - 24>>>>, sin |-> <<0 - 1, <<10368899, 0 - 25>>>>],
      [radian |-> <<0 - 1, <<12298340, 0 - 22>>>>,
       cos |-> <<0 - 1, <<16410592, 0 - 24>>>>, sin |-> <<0 - 1, <<13952743, 0 - 26>>>>],
      [radian |-> <<0 - 1, <<12737568, 0 - 22>>>>,
       cos |-> <<0 - 1, <<16685309, 0 - 24>>>>, sin |-> <<0 - 1, <<14029577, 0 - 27>>>>],
      [radian |-> <<0 - 1, <<13176794, 0 - 22>>>>,
       cos |-> <<0 - 1, <<8388608, 0 - 23>>>>, sin |-> <<0 - 1, <<10625385, 0 - 46>>>>],
      [radian |-> <<0 - 1, <<13616020, 0 - 22>>>>,
       cos |-> <<0 - 1, <<16685309, 0 - 24>>>>, sin |-> <<1, <<14029537, 0 - 27>>>>],
      [radian |-> <<0 - 1, <<14055246, 0 - 22>>>>,
       cos |-> <<0 - 1, <<16410595, 0 - 24>>>>, sin |-> <<1, <<13952692, 0 - 26>>>>],
      [radian |-> <<0 - 1, <<14494474, 0 - 22>>>>,
       cos |-> <<0 - 1, <<15956081, 0 - 24>>>>, sin |-> <<1, <<10368889, 0 - 25>>>>],
      [radian |-> <<0 - 1, <<14933700, 0 - 22>>>>,
       cos |-> <<0 - 1, <<15326750, 0 - 24>>>>, sin |-> <<1, <<13647813, 0 - 25>>>>],
      [radian |-> <<0 - 1, <<15372926, 0 - 22>>>>,
       cos |-> <<0 - 1, <<14529497, 0 - 24>>>>, sin |-> <<1, <<16777209, 0 - 25>>>>],
      [radian |-> <<0 - 1, <<15812152, 0 - 22>>>>,
       cos |-> <<0 - 1, <<13573057, 0 - 24>>>>, sin |-> <<1, <<9861395, 0 - 24>>>>],
      [radian |-> <<0 - 1, <<16251380, 0 - 22>>>>,
       cos |-> <<0 - 1, <<12467901, 0 - 24>>>>, sin |-> <<1, <<11226149, 0 - 24>>>>],
      [radian |-> <<0 - 1, <<16690606, 0 - 22>>>>,
       cos |-> <<0 - 1, <<11226150, 0 - 24>>>>, sin |-> <<1, <<12467900, 0 - 24>>>>],
      [radian |-> <<0 - 1, <<8564916, 0 - 21>>>>,
       cos |-> <<0 - 1, <<9861403, 0 - 24>>>>, sin |-> <<1, <<13573050, 0 - 24>>>>],
      [radian |-> <<0 - 1, <<8784529, 0 - 21>>>>,
       cos |-> <<0 - 1, <<8388613, 0 - 24>>>>, sin |-> <<1, <<14529492, 0 - 24>>>>],
      [radian |-> <<0 - 1, <<9004143, 0 - 21>>>>,
       cos |-> <<0 - 1, <<13647817, 0 - 25>>>>, sin |-> <<1, <<15326749, 0 - 24>>>>],
      [radian |-> <<0 - 1, <<9223756, 0 - 21>>>>,
       cos |-> <<0 - 1, <<10368893, 0 - 25>>>>, sin |-> <<1, <<15956080, 0 - 24>>>>],
      [radian |-> <<0 - 1, <<9443369, 0 - 21>>>>,
       cos |-> <<0 - 1, <<13952733, 0 - 26>>>>, sin |-> <<1, <<16410593, 0 - 24>>>>],
      [radian |-> <<0 - 1, <<9662982, 0 - 21>>>>,
       cos |-> <<0 - 1, <<14029619, 0 - 27>>>>, sin |-> <<1, <<16685308, 0 - 24>>>>] }

\* The zero of a difference has no sign that matters: it is held as +0.
F32Canonical(a) == IF a[2][1] = 0 THEN <<1, F32Zero>> ELSE a

F32Cos(radian) == (CHOOSE t \in Trig : t.radian = F32Canonical(radian)).cos

F32Sin(radian) == (CHOOSE t \in Trig : t.radian = F32Canonical(radian)).sin

(***************************************************************************)
(* Matrix::draw_circle and Matrix::draw_hand.                              *)
(***************************************************************************)
\* Whether column x and row y index a cell of the matrix.
InGrid(m, x, y) == x \in 0 .. m.width - 1 /\ y \in 0 .. m.height - 1

RECURSIVE BresenhamCircleLoop(_, _, _, _, _)
\* line_drawing::BresenhamCircle: four points, one per quadrant, for every
\* step of x from -radius up to 0 (none for radius 0).
BresenhamCircleLoop(cx, cy, x, y, error) ==
    IF x >= 0 THEN <<>>
    ELSE LET y1 == IF error <= y THEN y + 1 ELSE y
             e1 == IF error <= y THEN error + 2 * y1 + 1 ELSE error
             x1 == IF error > x \/ e1 > y1 THEN x + 1 ELSE x
             e2 == IF error > x \/ e1 > y1 THEN e1 + 2 * x1 + 1 ELSE e1
         IN  << <<cx - x, cy + y>>, <<cx - y, cy - x>>,
                <<cx + x, cy - y>>, <<cx + y, cy + x>> >>
                 \o BresenhamCircleLoop(cx, cy, x1, y1, e2)

\* clock.rs:229-233: the points of the circle, as (x, y).
CirclePoints(m) ==
    LET radius == F32Trunc(F32Positive(circle_radius(m)))
    IN  BresenhamCircleLoop(F32Trunc(F32Positive(midpoint_x(m))),
                            F32Trunc(F32Positive(midpoint_y(m))),
                            0 - radius, 0, 2 - 2 * radius)

\* bresenham::Octant::from_points
Octant(start, end) ==
    LET dx0 == end[1] - start[1]
        dy0 == end[2] - start[2]
        dx1 == IF dy0 < 0 THEN 0 - dx0 ELSE dx0
        dy1 == IF dy0 < 0 THEN 0 - dy0 ELSE dy0
        dx2 == IF dx1 < 0 THEN dy1 ELSE dx1
        dy2 == IF dx1 < 0 THEN 0 - dx1 ELSE dy1
    IN  (IF dy0 < 0 THEN 4 ELSE 0) + (IF dx1 < 0 THEN 2 ELSE 0)
            + (IF dx2 < dy2 THEN 1 ELSE 0)

\* bresenham::Octant::to_octant0
to_octant0(octant, p) ==
    CASE octant = 0 -> <<p[1], p[2]>>
      [] octant = 1 -> <<p[2], p[1]>>
      [] octant = 2 -> <<p[2], 0 - p[1]>>
      [] octant = 3 -> <<0 - p[1], p[2]>>
      [] octant = 4 -> <<0 - p[1], 0 - p[2]>>
      [] octant = 5 -> <<0 - p[2], 0 - p[1]>>
      [] octant = 6 -> <<0 - p[2], p[1]>>
      [] octant = 7 -> <<p[1], 0 - p[2]>>

\* bresenham::Octant::from_octant0
from_octant0(octant, p) ==
    CASE octant = 0 -> <<p[1], p[2]>>
      [] octant = 1 -> <<p[2], p[1]>>
      [] octant = 2 -> <<0 - p[2], p[1]>>
      [] octant = 3 -> <<0 - p[1], p[2]>>
      [] octant = 4 -> <<0 - p[1], 0 - p[2]>>
      [] octant = 5 -> <<0 - p[2], 0 - p[1]>>
      [] octant = 6 -> <<p[2], 0 - p[1]>>
      [] octant = 7 -> <<p[1], 0 - p[2]>>

RECURSIVE BresenhamLoop(_, _, _, _, _, _, _)
\* bresenham::Bresenham::next, until it returns None: the end point is not
\* produced.
BresenhamLoop(x, y, delta, dx, dy, x1, octant) ==
    IF x >= x1 THEN <<>>
    ELSE <<from_octant0(octant, <<x, y>>)>>
             \o BresenhamLoop(x + 1,
                              IF delta >= 0 THEN y + 1 ELSE y,
                              (IF delta >= 0 THEN delta - dx ELSE delta) + dy,
                              dx, dy, x1, octant)

\* clock.rs:293: Bresenham::new(startpoint, endpoint), as the list of its points.
Bresenham(start, end) ==
    CHOOSE line \in
        UNION {{BresenhamLoop(s[1], s[2], (e[2] - s[2]) - (e[1] - s[1]),
                              e[1] - s[1], e[2] - s[2], e[1], octant) :
                   s \in {to_octant0(octant, start)}, e \in {to_octant0(octant, end)}} :
               octant \in {Octant(start, end)}} : TRUE

\* clock.rs:447-459
Hand(deg, thickness, length, line_start, color) ==
    [degree |-> deg, thickness |-> thickness, length |-> length,
     line_start |-> line_start, color |-> color]

\* clock.rs:244: PI / 2.0 - (degree).to_radians()
Radian(h) ==
    F32AddSigned(F32Positive(F32DivInt(PI, 2)), F32Negative(to_radians(h.degree)))

\* clock.rs:247-265: the origins of the lines of a hand, as (x, y) in f32.
Origins(m, h) ==
    LET x     == F32Positive(midpoint_x(m))
        y     == F32Positive(midpoint_y(m))
        left  == F32AddSigned(x, F32Negative(F32One))
        right == F32AddSigned(x, F32Positive(F32One))
        above == F32AddSigned(y, F32Positive(F32One))
        below == F32AddSigned(y, F32Negative(F32One))
    IN  IF h.thickness = "Thin" THEN << <<x, y>> >>
        ELSE << <<left, above>>, <<x, above>>, <<right, above>>,
                <<left, y>>,     <<x, y>>,     <<right, y>>,
                <<left, below>>, <<x, below>>, <<right, below>> >>

\* clock.rs:275-279
get_point(origin, hypotenuse, radian) ==
    << F32Trunc(F32AddSigned(origin[1],
                             F32MulSigned(F32Positive(hypotenuse), F32Cos(radian)))),
       F32Trunc(F32AddSigned(origin[2],
                             F32MulSigned(F32Positive(hypotenuse), F32Sin(radian)))) >>

\* clock.rs:282-285
startpoint(m, h, origin) ==
    IF h.line_start = "FromCenter"
    THEN get_point(origin, F32Zero, Radian(h))
    ELSE get_point(origin, F32Mul(circle_radius(m), F32SubPos(F32One, h.length)),
                   Radian(h))

\* clock.rs:288-291
endpoint(m, h, origin) ==
    IF h.line_start = "FromCenter"
    THEN get_point(origin, F32Mul(circle_radius(m), h.length), Radian(h))
    ELSE get_point(origin, circle_radius(m), Radian(h))

\* clock.rs:293-304: the Points of one line of a hand: y is height - y.
LinePoints(m, h, origin) ==
    CHOOSE points \in
        UNION {{[i \in 1 .. Len(line) |->
                    [x |-> line[i][1], y |-> m.height - line[i][2], color |-> h.color]] :
                   line \in {Bresenham(start, end)}} :
               start \in {startpoint(m, h, origin)}, end \in {endpoint(m, h, origin)}} : TRUE

RECURSIVE Flatten(_)
Flatten(lists) == IF lists = <<>> THEN <<>> ELSE Head(lists) \o Flatten(Tail(lists))

\* clock.rs:267-307: the Points draw_hand gives to draw_using_points, line
\* after line.  No line changes the fields the next one is computed from.
HandPoints(m, h) ==
    LET origins == Origins(m, h)
    IN  Flatten([i \in 1 .. Len(origins) |-> LinePoints(m, h, origins[i])])

\* clock.rs:125: (n as f32) / 12.0 * 360.0
HourLabelDegree(n) == F32Mul360(F32DivInt(F32FromInt(n), 12))

\* clock.rs:140: (n as f32) / 60.0 * 360.0
MinuteLabelDegree(n) == F32Mul360(F32DivInt(F32FromInt(n), 60))

\* clock.rs:124-130
HourLabel(n) ==
    Hand(HourLabelDegree(n), "Thin", Literal_0_15, "FromCircumference", Theme.clock_face)

\* clock.rs:139-145
MinuteLabel(n) ==
    Hand(MinuteLabelDegree(n), "Thin", Literal_0_05, "FromCircumference", MinuteLabelColor)

\* clock.rs:166-172
MinuteHand(deg) == Hand(deg, "Bold", Literal_0_9, "FromCenter", Theme.minute)

\* clock.rs:175-181
HourHand(deg) == Hand(deg, "Bold", Literal_0_5, "FromCenter", Theme.hour)

\* clock.rs:185-191
SecondHand(deg) == Hand(deg, "Thin", Literal_0_9, "FromCenter", Theme.second)

NoHand == Hand(F32Zero, "Thin", F32Zero, "FromCenter", None)

\* The directions n * 30 degrees.
Directions == 0 .. 11

\* The hands draw_clock draws in the twelve directions: the hour labels, every
\* fifth minute label, and the hands at the full hour, at every fifth minute
\* and at every fifth second.
GeoHands ==
    {HourLabel(n) : n \in Directions}
        \cup {MinuteLabel(5 * n) : n \in Directions}
        \cup {MinuteHand(HandDegrees(DateTime(0, 5 * n, 0, 0), 1000).minute) : n \in Directions}
        \cup {HourHand(HandDegrees(DateTime(n, 0, 0, 0), 1000).hour) : n \in Directions}
        \cup {SecondHand(HandDegrees(DateTime(0, 0, 5 * n, 0), 1000).second) : n \in Directions}

(***************************************************************************)
(* draw_clock as a whole: the frame it returns for a terminal size, an     *)
(* aspect ratio, a local time and the options, or its panic.               *)
(***************************************************************************)
\* What a drawing routine leaves when an index was outside the grid: the
\* thread has panicked and there is no matrix.
Panicked == [NoMatrix EXCEPT !.width = 0 - 1]

IsPanicked(m) == m.width < 0

\* clock.rs:235, 392: cells[y][x] is indexed for every point.
Indexable(m, points) ==
    \A i \in 1 .. Len(points) : InGrid(m, points[i].x, points[i].y)

\* clock.rs:228-238.  The points are bound as the one element of a set.
Matrix_draw_circle(m, color) ==
    CHOOSE drawn \in
        {IF Indexable(m, [i \in 1 .. Len(circle) |->
                             [x |-> circle[i][1], y |-> circle[i][2], color |-> color]])
         THEN draw_using_points(m, [i \in 1 .. Len(circle) |->
                             [x |-> circle[i][1], y |-> circle[i][2], color |-> color]])
         ELSE Panicked : circle \in {CirclePoints(m)}} : TRUE

\* clock.rs:242-308.  The points are bound as the one element of a set.
Matrix_draw_hand(m, h) ==
    CHOOSE drawn \in
        {IF Indexable(m, points) THEN draw_using_points(m, points) ELSE Panicked :
            points \in {HandPoints(m, h)}} : TRUE

\* clock.rs:122-194: the hands draw_clock draws, in the order it draws them:
\* the hour labels and the minute labels that are shown, the minute hand, the
\* hour hand, and the second hand if it is shown.
ClockHands(dt, tick, opts) ==
    (IF opts.show_hour_labels THEN [i \in 1 .. 12 |-> HourLabel(i - 1)] ELSE <<>>)
        \o (IF opts.show_minute_labels THEN [i \in 1 .. 60 |-> MinuteLabel(i - 1)] ELSE <<>>)
        \o <<MinuteHand(HandDegrees(dt, tick).minute), HourHand(HandDegrees(dt, tick).hour)>>
        \o (IF opts.show_second_hand
            THEN <<SecondHand(HandDegrees(dt, tick).second)>>
            ELSE <<>>)

RECURSIVE DrawHands(_, _)
\* clock.rs:122-194: every draw_hand is applied to the matrix the one before
\* returned: the first half of the hands, then the second half on the matrix
\* the first half left, which is bound as the one element of a set.
DrawHands(m, hands) ==
    IF hands = <<>> \/ IsPanicked(m) THEN m
    ELSE IF Len(hands) = 1 THEN Matrix_draw_hand(m, hands[1])
    ELSE CHOOSE last \in
             {DrawHands(first, SubSeq(hands, Len(hands) \div 2 + 1, Len(hands))) :
                 first \in {DrawHands(m, SubSeq(hands, 1, Len(hands) \div 2))}} : TRUE

\* clock.rs:116-197, for a logical clock width: the circle, the hands, and
\* the rescaling.
DrawWidth(size, clock_width, dt, tick, opts) ==
    CHOOSE frame \in
        {IF IsPanicked(drawn) THEN Panicked ELSE rescale(drawn, size[1]) :
            drawn \in {DrawHands(circle, hands) :
                circle \in {Matrix_draw_circle(Matrix_new(clock_width, size[2]),
                                               Theme.clock_face)},
                hands \in {ClockHands(dt, tick, opts)}}} : TRUE

\* clock.rs:111-198: the frame draw_clock returns on a terminal of the given
\* size at the local time dt.
draw_clock(size, ratio, dt, tick, opts) ==
    DrawWidth(size, ClockWidth(size[1], ratio), dt, tick, opts)

\* cli.rs:16: the default tick interval, in milliseconds.
DefaultTick == 1000

\* The local times the loop draws the clock at.
ClockTimes ==
    {DateTime(0, 0, 0, 0), DateTime(0, 0, 1, 0), DateTime(0, 0, 16, 0),
     DateTime(0, 0, 30, 0)}

\* cli.rs:19-29: the visibility flags the clock is run with, the defaults:
\* the second hand and the hour labels shown, the minute labels hidden.
ClockOptions == {Options(TRUE, TRUE, FALSE)}

\* The inputs of draw_clock in the loop: a terminal, a logical clock width
\* up to the terminal's, a local time and the options.
DrawnKeys ==
    UNION {{<<size, w, dt, opts>> :
               w \in 0 .. size[1], dt \in ClockTimes, opts \in ClockOptions} :
           size \in TermSizes}

\* draw_clock at the default tick interval, for each of these inputs.
Drawn ==
    {[key |-> k, frame |-> DrawWidth(k[1], k[2], k[3], DefaultTick, k[4])] :
        k \in DrawnKeys}

\* The frames draw_clock can return at the default tick interval on a
\* terminal of the given size with the given aspect ratio and options: one
\* for every local time at which it does not panic.
Frames(size, ratio, opts) ==
    {m \in {IF <<size, ClockWidth(size[1], ratio), dt, opts>> \in DrawnKeys
            THEN (CHOOSE d \in Drawn :
                      d.key = <<size, ClockWidth(size[1], ratio), dt, opts>>).frame
            ELSE draw_clock(size, ratio, dt, DefaultTick, opts) : dt \in ClockTimes} :
        ~IsPanicked(m)}

(***************************************************************************)
(* The terminal screen: a grid of cells, column x and row y from 0, changed *)
(* by terminal::Clear, by the updates Matrix::print writes, and by text.   *)
(***************************************************************************)
\* What the screen shows in a cell once text went to the terminal: the
\* shell's output before startup, or the line println! writes for a mouse
\* event (which may wrap and scroll the screen).
Garbled == "?"

\* The cells of the terminals of TermSizes.
ScreenPositions ==
    UNION {(0 .. size[1] - 1) \X (0 .. size[2] - 1) : size \in TermSizes}

GarbledScreen == [p \in ScreenPositions |-> Garbled]

\* clock.rs:54, 87, 94: terminal::Clear(ClearType::All).
ClearAll == [p \in ScreenPositions |-> None]

RECURSIVE ApplyUpdatesTransposed(_, _)
\* Mutant of ApplyUpdates: the cursor is moved to column y, row x.
ApplyUpdatesTransposed(shown, updates) ==
    IF updates = <<>> THEN shown
    ELSE ApplyUpdatesTransposed(
             [shown EXCEPT ![<<Head(updates).y, Head(updates).x>>] = Head(updates).cell],
             Tail(updates))

RECURSIVE ApplyUpdates(_, _)
\* clock.rs:368-383: for every update in order, MoveTo(x, y) and one
\* character: a block in the cell's colour, or a space for None.
ApplyUpdates(shown, updates) ==
    IF updates = <<>> THEN shown
    ELSE ApplyUpdates(
             [shown EXCEPT ![<<Head(updates).x, Head(updates).y>>] = Head(updates).cell],
             Tail(updates))

(***************************************************************************)
(* State of run_clock.                                                     *)
(***************************************************************************)
VARIABLES
    pc,              \* where run_clock is
    aspect_ratio,    \* UiState.aspect_ratio, in 2^-27 units
    current_matrix,  \* the retained previous frame
    new_matrix,      \* the frame draw_clock returned in this iteration
    diff,            \* the update list of this iteration
    event,           \* what poll/read delivered in this iteration
    term,            \* the terminal's size, as term_size::dimensions() sees it
    events,          \* resize events waiting to be read
    io_ok,           \* whether writes to stdout succeed
    raw_mode,        \* terminal state
    cursor_visible,
    screen_clear,    \* the screen shows no glyph
    rendered,        \* history: the frame last put on the screen
    screen,          \* what the terminal shows, cell by cell
    datetime,        \* draw_clock: Local::now(), as hour, minute, second, millisecond
    tick_interval,   \* draw_clock: options.tick_interval, in milliseconds
    degree,          \* draw_clock: degree_hour, degree_minute, degree_second
    options,         \* draw_clock: the visibility flags of RunClockOptions
    matrix,          \* draw_clock: the matrix being drawn, before rescaling
    draw_step,       \* draw_clock: the drawing step to come
    layers,          \* history: the points each drawing step has rasterised
    hand,            \* draw_hand: the Hand being drawn
    circle_points,   \* history: the (x, y) draw_circle indexed the cells with
    hand_points      \* history: the Points draw_hand gave to draw_using_points

\* The state of run_clock.
loop_vars == <<pc, aspect_ratio, current_matrix, new_matrix, diff, event, term,
               events, io_ok, raw_mode, cursor_visible, screen_clear, rendered,
               screen>>

\* The inputs and results of the computations of draw_clock that are
\* checked on their own.
angle_vars == <<datetime, tick_interval, degree>>

compose_vars == <<options, matrix, draw_step, layers>>

\* The geometry of draw_circle and draw_hand, checked on its own.
geo_vars == <<hand, circle_points, hand_points>>

draw_vars == <<angle_vars, compose_vars, geo_vars>>

vars == <<loop_vars, draw_vars>>

Running == {"poll", "draw", "diff", "print", "assign"}

\* run_clock is between its start and the loop.
Starting == {"hide", "clear", "term_size"}

\* run_clock is between the two writes of a quit.
Quitting == {"show"}

\* The event of this iteration: its kind and, for a resize, its dimensions.
Ev(kind, width, height) == [kind |-> kind, width |-> width, height |-> height]

NoEvent == Ev("none", 0, 0)

Init ==
    /\ pc = "start"
    /\ aspect_ratio = Two
    /\ current_matrix = NoMatrix
    /\ new_matrix = NoMatrix
    /\ diff = <<>>
    /\ event = NoEvent
    /\ term \in TermSizes
    /\ events = <<>>
    /\ io_ok \in BOOLEAN
    /\ raw_mode = FALSE
    /\ cursor_visible = TRUE
    /\ screen_clear = FALSE
    /\ rendered = NoMatrix
    /\ screen = GarbledScreen
    /\ datetime = NoDateTime
    /\ tick_interval = DefaultTick
    /\ degree = NoDegree
    /\ options \in ClockOptions
    /\ matrix = NoMatrix
    /\ draw_step = "idle"
    /\ layers = NoLayers
    /\ hand = NoHand
    /\ circle_points = <<>>
    /\ hand_points = <<>>

\* clock.rs:49: terminal::enable_raw_mode()?
enable_raw_mode ==
    /\ pc = "start"
    /\ raw_mode' = TRUE
    /\ pc' = "hide"
    /\ UNCHANGED <<aspect_ratio, current_matrix, new_matrix, diff, event, term,
                   events, io_ok, cursor_visible, screen_clear, rendered, screen>>
    /\ UNCHANGED draw_vars

\* clock.rs:49: enable_raw_mode() returns Err (for instance no terminal):
\* run_clock returns it with nothing changed.
enable_raw_mode_fails ==
    /\ pc = "start"
    /\ pc' = "err_raw_mode"
    /\ UNCHANGED <<aspect_ratio, current_matrix, new_matrix, diff, event, term,
                   events, io_ok, raw_mode, cursor_visible, screen_clear, rendered,
                   screen>>
    /\ UNCHANGED draw_vars

\* clock.rs:52-53: stdout.execute(cursor::Hide)?: a failed write returns the
\* error from run_clock.
HideCursor ==
    /\ pc = "hide"
    /\ IF io_ok
       THEN /\ cursor_visible' = FALSE
            /\ pc' = "clear"
       ELSE /\ pc' = "err_hide"
            /\ UNCHANGED cursor_visible
    /\ UNCHANGED <<aspect_ratio, current_matrix, new_matrix, diff, event, term,
                   events, io_ok, raw_mode, screen_clear, rendered, screen>>
    /\ UNCHANGED draw_vars

\* clock.rs:54: .execute(terminal::Clear(ClearType::All))?: a failed write
\* returns the error from run_clock.
ClearScreen ==
    /\ pc = "clear"
    /\ IF io_ok
       THEN /\ screen_clear' = TRUE
            /\ screen' = ClearAll
            /\ pc' = "term_size"
       ELSE /\ pc' = "err_clear"
            /\ UNCHANGED <<screen_clear, screen>>
    /\ UNCHANGED <<aspect_ratio, current_matrix, new_matrix, diff, event, term,
                   events, io_ok, raw_mode, cursor_visible, rendered>>
    /\ UNCHANGED draw_vars

\* clock.rs:56-60: the state, the terminal size and the first retained
\* frame.
Startup ==
    /\ pc = "term_size"
    /\ aspect_ratio' = Two
    /\ current_matrix' = Matrix_new(term[1], term[2])
    /\ rendered' = Matrix_new(term[1], term[2])
    /\ pc' = "poll"
    /\ UNCHANGED <<new_matrix, diff, event, term, events, io_ok, raw_mode,
                   cursor_visible, screen_clear, screen>>
    /\ UNCHANGED draw_vars

\* clock.rs:58-59: term_size::dimensions() is None: run_clock returns Err.
StartupFails ==
    /\ pc = "term_size"
    /\ pc' = "err_term_size"
    /\ UNCHANGED <<aspect_ratio, current_matrix, new_matrix, diff, event, term,
                   events, io_ok, raw_mode, cursor_visible, screen_clear, rendered,
                   screen>>
    /\ UNCHANGED draw_vars

\* clock.rs:65: poll() returns false: no event within the tick interval.
PollTimeout ==
    /\ pc = "poll"
    /\ events = <<>>
    /\ event' = Ev("timeout", 0, 0)
    /\ pc' = "draw"
    /\ UNCHANGED <<aspect_ratio, current_matrix, new_matrix, diff, term, events,
                   io_ok, raw_mode, cursor_visible, screen_clear, rendered, screen>>
    /\ UNCHANGED draw_vars

\* clock.rs:65-66: poll() or read() returns Err.
PollFails ==
    /\ pc = "poll"
    /\ pc' = "err_poll"
    /\ UNCHANGED <<aspect_ratio, current_matrix, new_matrix, diff, event, term,
                   events, io_ok, raw_mode, cursor_visible, screen_clear, rendered, screen>>
    /\ UNCHANGED draw_vars

\* Mutant of KeyRatio: `-` has no floor, and takes 1.0 off the ratio.
KeyRatioNoFloor(key, ratio) ==
    IF key \in {"+", "="} THEN F32Add(ratio, Tenth)
    ELSE IF key = "-" THEN F32Sub(ratio, One)
    ELSE IF key = "0" THEN Two
    ELSE ratio

\* Mutant of KeyRatio: the signs of `+` and `-` are swapped.
KeyRatioSwapped(key, ratio) ==
    IF key \in {"+", "="} THEN (IF ratio > One THEN F32Sub(ratio, Tenth) ELSE ratio)
    ELSE IF key = "-" THEN F32Add(ratio, Tenth)
    ELSE IF key = "0" THEN Two
    ELSE ratio

\* clock.rs:69-81: the aspect ratio after a key that does not quit.
KeyRatio(key, ratio) ==
    IF key \in {"+", "="} THEN F32Add(ratio, Tenth)
    ELSE IF key = "-" THEN (IF ratio > One THEN F32Sub(ratio, Tenth) ELSE ratio)
    ELSE IF key = "0" THEN Two
    ELSE ratio

RatioKeys == {"+", "=", "-", "0", "x"}

RECURSIVE Pressed(_, _, _)
\* The aspect ratio after a key has been pressed n times.
Pressed(key, n, ratio) ==
    IF n = 0 THEN ratio ELSE Pressed(key, n - 1, KeyRatio(key, ratio))

\* clock.rs:67-81: a key event that is not a quit key.
ReadKey(key) ==
    /\ pc = "poll"
    /\ key \in {"+", "="} => aspect_ratio < Two + MaxPlus * Tenth
    /\ aspect_ratio' = KeyRatio(key, aspect_ratio)
    /\ event' = Ev("key", 0, 0)
    /\ pc' = "draw"
    /\ UNCHANGED <<current_matrix, new_matrix, diff, term, events, io_ok,
                   raw_mode, cursor_visible, screen_clear, rendered, screen>>
    /\ UNCHANGED draw_vars

\* clock.rs:83-87: `q` or Ctrl-C: the screen is cleared.  A failed write
\* returns the error from run_clock.
ReadQuit ==
    /\ pc = "poll"
    /\ IF io_ok
       THEN /\ screen_clear' = TRUE
            /\ screen' = ClearAll
            /\ pc' = "show"
       ELSE /\ pc' = "err_quit"
            /\ UNCHANGED <<screen_clear, screen>>
    /\ event' = Ev("key", 0, 0)
    /\ UNCHANGED <<aspect_ratio, current_matrix, new_matrix, diff, term, events,
                   io_ok, raw_mode, cursor_visible, rendered>>
    /\ UNCHANGED draw_vars

\* clock.rs:88-89: .execute(cursor::Show)?, a second write, then
\* process::exit(0).  A failed write returns the error from run_clock.
ShowCursor ==
    /\ pc = "show"
    /\ IF io_ok
       THEN /\ cursor_visible' = TRUE
            /\ pc' = "exited"
       ELSE /\ pc' = "err_quit"
            /\ UNCHANGED cursor_visible
    /\ UNCHANGED <<aspect_ratio, current_matrix, new_matrix, diff, event, term,
                   events, io_ok, raw_mode, screen_clear, rendered, screen>>
    /\ UNCHANGED draw_vars

\* clock.rs:92: a mouse event is printed with println!, which panics when
\* the write fails.
ReadMouse ==
    /\ pc = "poll"
    /\ IF io_ok
       THEN /\ screen_clear' = FALSE
            /\ screen' = GarbledScreen
            /\ pc' = "draw"
       ELSE /\ pc' = "panic_println"
            /\ UNCHANGED <<screen_clear, screen>>
    /\ event' = Ev("mouse", 0, 0)
    /\ UNCHANGED <<aspect_ratio, current_matrix, new_matrix, diff, term, events,
                   io_ok, raw_mode, cursor_visible, rendered>>
    /\ UNCHANGED draw_vars

\* Mutant of ReadResize: the retained frame is kept.
ReadResizeKeepsFrame ==
    /\ pc = "poll"
    /\ events # <<>>
    /\ events' = Tail(events)
    /\ event' = Ev("resize", Head(events)[1], Head(events)[2])
    /\ IF io_ok
       THEN /\ screen_clear' = TRUE
            /\ screen' = ClearAll
            /\ pc' = "draw"
       ELSE /\ pc' = "err_resize"
            /\ UNCHANGED <<screen_clear, screen>>
    /\ UNCHANGED <<aspect_ratio, current_matrix, new_matrix, diff, term, io_ok,
                   raw_mode, cursor_visible, rendered>>
    /\ UNCHANGED draw_vars

\* clock.rs:93-96: a resize event: clear the screen, start from an empty
\* frame of the event's dimensions.
ReadResize ==
    /\ pc = "poll"
    /\ events # <<>>
    /\ events' = Tail(events)
    /\ event' = Ev("resize", Head(events)[1], Head(events)[2])
    /\ IF io_ok
       THEN /\ screen_clear' = TRUE
            /\ current_matrix' = Matrix_new(Head(events)[1], Head(events)[2])
            /\ rendered' = Matrix_new(Head(events)[1], Head(events)[2])
            /\ screen' = ClearAll
            /\ pc' = "draw"
       ELSE /\ pc' = "err_resize"
            /\ UNCHANGED <<screen_clear, current_matrix, rendered, screen>>
    /\ UNCHANGED <<aspect_ratio, new_matrix, diff, term, io_ok, raw_mode,
                   cursor_visible>>
    /\ UNCHANGED draw_vars

\* clock.rs:99, 111-198: draw_clock asks the terminal for its size and
\* returns the frame of the clock at the local time.
DrawClock ==
    /\ pc = "draw"
    /\ \E m \in Frames(term, aspect_ratio, options) : new_matrix' = m
    /\ pc' = "diff"
    /\ UNCHANGED <<aspect_ratio, current_matrix, diff, event, term, events,
                   io_ok, raw_mode, cursor_visible, screen_clear, rendered, screen>>
    /\ UNCHANGED draw_vars

\* clock.rs:112-114 (unwrap of an unavailable terminal size) and
\* clock.rs:235, 392 (an index outside the grid): draw_clock panics.
DrawClockPanics ==
    /\ pc = "draw"
    /\ pc' = "panic_draw"
    /\ UNCHANGED <<aspect_ratio, current_matrix, new_matrix, diff, event, term,
                   events, io_ok, raw_mode, cursor_visible, screen_clear, rendered, screen>>
    /\ UNCHANGED draw_vars

\* clock.rs:102, 331-363
Diff ==
    /\ pc = "diff"
    /\ IF DimensionMismatch(current_matrix, new_matrix)
       THEN /\ pc' = "panic_diff"
            /\ UNCHANGED diff
       ELSE /\ diff' = Matrix_diff(current_matrix, new_matrix)
            /\ pc' = "print"
    /\ UNCHANGED <<aspect_ratio, current_matrix, new_matrix, event, term, events,
                   io_ok, raw_mode, cursor_visible, screen_clear, rendered, screen>>
    /\ UNCHANGED draw_vars

\* The screen after Matrix::print has written the updates.  A screen that
\* text was printed on is not followed cell by cell until it is cleared.
Written(shown, updates) ==
    IF shown = GarbledScreen THEN shown ELSE ApplyUpdates(shown, updates)

\* Whether Matrix::print writes a glyph (a block, not a space).
PaintsGlyph(updates) == \E i \in 1 .. Len(updates) : updates[i].cell # None

\* Mutant of Matrix_print: the result of print is ignored.
Matrix_print_ignores_error ==
    /\ pc = "print"
    /\ screen_clear' = (screen_clear /\ ~(io_ok /\ PaintsGlyph(diff)))
    /\ screen' = IF io_ok THEN Written(screen, diff) ELSE screen
    /\ rendered' = new_matrix
    /\ pc' = "assign"
    /\ diff' = <<>>
    /\ UNCHANGED <<aspect_ratio, current_matrix, new_matrix, event, term, events,
                   io_ok, raw_mode, cursor_visible>>
    /\ UNCHANGED draw_vars

\* clock.rs:104, 365-388: the updates are queued and flushed; nothing is
\* written for an empty list.  The list is moved into print.
Matrix_print ==
    /\ pc = "print"
    /\ IF io_ok \/ diff = <<>>
       THEN /\ screen_clear' = (screen_clear /\ ~PaintsGlyph(diff))
            /\ screen' = Written(screen, diff)
            /\ rendered' = new_matrix
            /\ pc' = "assign"
       ELSE /\ pc' = "err_print"
            /\ UNCHANGED <<screen_clear, rendered, screen>>
    /\ diff' = <<>>
    /\ UNCHANGED <<aspect_ratio, current_matrix, new_matrix, event, term, events,
                   io_ok, raw_mode, cursor_visible>>
    /\ UNCHANGED draw_vars

\* Mutant of Assign: the retained frame is not replaced.
AssignStale ==
    /\ pc = "assign"
    /\ new_matrix' = NoMatrix
    /\ event' = NoEvent
    /\ pc' = "poll"
    /\ UNCHANGED <<aspect_ratio, current_matrix, diff, term, events, io_ok,
                   raw_mode, cursor_visible, screen_clear, rendered, screen>>
    /\ UNCHANGED draw_vars

\* clock.rs:107: new_matrix is moved into current_matrix; the iteration ends.
Assign ==
    /\ pc = "assign"
    /\ current_matrix' = new_matrix
    /\ new_matrix' = NoMatrix
    /\ event' = NoEvent
    /\ pc' = "poll"
    /\ UNCHANGED <<aspect_ratio, diff, term, events, io_ok, raw_mode,
                   cursor_visible, screen_clear, rendered, screen>>
    /\ UNCHANGED draw_vars

\* The environment: the user resizes the terminal; a resize event is queued.
TerminalResize(size) ==
    /\ pc \in Running
    /\ size # term
    /\ Len(events) < MaxQueue
    /\ term' = size
    /\ events' = Append(events, size)
    /\ UNCHANGED <<pc, aspect_ratio, current_matrix, new_matrix, diff, event,
                   io_ok, raw_mode, cursor_visible, screen_clear, rendered, screen>>
    /\ UNCHANGED draw_vars

\* The environment: stdout stops accepting writes (for instance a closed pipe).
StdoutBreaks ==
    /\ pc \in Starting \cup Running \cup Quitting
    /\ io_ok
    /\ io_ok' = FALSE
    /\ UNCHANGED <<pc, aspect_ratio, current_matrix, new_matrix, diff, event,
                   term, events, raw_mode, cursor_visible, screen_clear, rendered, screen>>
    /\ UNCHANGED draw_vars

Next ==
    \/ enable_raw_mode
    \/ enable_raw_mode_fails
    \/ HideCursor
    \/ ClearScreen
    \/ Startup
    \/ StartupFails
    \/ PollTimeout
    \/ PollFails
    \/ \E key \in RatioKeys : ReadKey(key)
    \/ ReadQuit
    \/ ShowCursor
    \/ ReadMouse
    \/ ReadResize
    \/ DrawClock
    \/ DrawClockPanics
    \/ Diff
    \/ Matrix_print
    \/ Assign
    \/ \E size \in TermSizes : TerminalResize(size)
    \/ StdoutBreaks

Spec == Init /\ [][Next]_vars

(***************************************************************************)
(* The hand angles on their own: draw_clock reads the clock and computes   *)
(* the three angles.                                                       *)
(***************************************************************************)
InitAngles ==
    /\ pc = "start"
    /\ aspect_ratio = Two
    /\ current_matrix = NoMatrix
    /\ new_matrix = NoMatrix
    /\ diff = <<>>
    /\ event = NoEvent
    /\ term = <<1, 1>>
    /\ events = <<>>
    /\ io_ok = TRUE
    /\ raw_mode = FALSE
    /\ cursor_visible = TRUE
    /\ screen_clear = FALSE
    /\ rendered = NoMatrix
    /\ screen = GarbledScreen
    /\ datetime \in {DateTime(h, m, sec, ms) :
                        h \in Hours, m \in Minutes, sec \in Seconds, ms \in Milliseconds}
    /\ tick_interval \in TickIntervals
    /\ degree = NoDegree
    /\ options = NoOptions
    /\ matrix = NoMatrix
    /\ draw_step = "idle"
    /\ layers = NoLayers
    /\ hand = NoHand
    /\ circle_points = <<>>
    /\ hand_points = <<>>

\* clock.rs:151-163
ComputeDegrees ==
    /\ degree = NoDegree
    /\ degree' = HandDegrees(datetime, tick_interval)
    /\ UNCHANGED <<datetime, tick_interval>>
    /\ UNCHANGED <<loop_vars, compose_vars, geo_vars>>

NextAngles == ComputeDegrees

SpecAngles == InitAngles /\ [][NextAngles]_vars

(***************************************************************************)
(* The drawing steps of draw_clock on their own: one frame is composed on  *)
(* the narrowed matrix, step by step.                                      *)
(***************************************************************************)
InitCompose ==
    /\ pc = "draw"
    /\ term \in {size \in TermSizes : size[1] * size[2] <= MaxDrawnCells}
    /\ aspect_ratio \in {Two, Pressed("-", 10, Two)}
    /\ current_matrix = Matrix_new(term[1], term[2])
    /\ rendered = Matrix_new(term[1], term[2])
    /\ screen = ClearAll
    /\ new_matrix = NoMatrix
    /\ diff = <<>>
    /\ event = Ev("timeout", 0, 0)
    /\ events = <<>>
    /\ io_ok = TRUE
    /\ raw_mode = TRUE
    /\ cursor_visible = FALSE
    /\ screen_clear = TRUE
    /\ datetime = NoDateTime
    /\ tick_interval = 0
    /\ degree = NoDegree
    /\ options \in {Options(s, h, m) : s \in BOOLEAN, h \in BOOLEAN, m \in BOOLEAN}
    /\ matrix = NoMatrix
    /\ draw_step = "start"
    /\ layers = NoLayers
    /\ hand = NoHand
    /\ circle_points = <<>>
    /\ hand_points = <<>>

\* clock.rs:112-117: the matrix of the logical clock width.
BeginDraw ==
    /\ draw_step = "start"
    /\ matrix' = Matrix_new(ClockWidth(term[1], aspect_ratio), term[2])
    /\ draw_step' = "circle"
    /\ UNCHANGED <<options, layers, angle_vars, geo_vars, loop_vars>>

\* One drawing step: when it is enabled its points are drawn in its colour.
Draw(step) ==
    /\ draw_step = step
    /\ IF StepEnabled(step, options)
       THEN \E positions \in Rasters(matrix, step) :
                /\ matrix' = draw_using_points(matrix, PointList(positions, StepColor(step)))
                /\ layers' = [layers EXCEPT ![step] = positions]
       ELSE UNCHANGED <<matrix, layers>>
    /\ draw_step' = StepAfter(step)
    /\ UNCHANGED <<options, angle_vars, geo_vars, loop_vars>>

\* clock.rs:119, 228-238
DrawCircle == Draw("circle")

\* clock.rs:122-134
DrawHourLabels == Draw("hour_labels")

\* clock.rs:137-149
DrawMinuteLabels == Draw("minute_labels")

\* clock.rs:166-172
DrawMinuteHand == Draw("minute_hand")

\* clock.rs:175-181
DrawHourHand == Draw("hour_hand")

\* clock.rs:184-194
DrawSecondHand == Draw("second_hand")

\* clock.rs:235, 392: a rasterised point lies outside the grid: the index
\* panics.  clock.rs:316: resizing an image without columns can panic.
DrawPanics ==
    /\ \/ draw_step \in StepNames /\ StepEnabled(draw_step, options)
       \/ draw_step = "rescale" /\ matrix.width = 0
    /\ draw_step' = "panic"
    /\ UNCHANGED <<options, matrix, layers, angle_vars, geo_vars, loop_vars>>

\* clock.rs:197: the composed matrix is stretched to the screen width.
Rescale ==
    /\ draw_step = "rescale"
    /\ matrix' = rescale(matrix, term[1])
    /\ draw_step' = "done"
    /\ UNCHANGED <<options, layers, angle_vars, geo_vars, loop_vars>>

NextCompose ==
    \/ BeginDraw
    \/ DrawCircle
    \/ DrawHourLabels
    \/ DrawMinuteLabels
    \/ DrawMinuteHand
    \/ DrawHourHand
    \/ DrawSecondHand
    \/ Rescale
    \/ DrawPanics

SpecCompose == InitCompose /\ [][NextCompose]_vars

(***************************************************************************)
(* The geometry of the drawing routines on their own: on an empty matrix   *)
(* the circle is drawn, then one hand.                                     *)
(***************************************************************************)
InitGeometry ==
    /\ pc = "draw"
    /\ term = <<1, 1>>
    /\ aspect_ratio = Two
    /\ current_matrix = Matrix_new(1, 1)
    /\ rendered = Matrix_new(1, 1)
    /\ screen = ClearAll
    /\ new_matrix = NoMatrix
    /\ diff = <<>>
    /\ event = Ev("timeout", 0, 0)
    /\ events = <<>>
    /\ io_ok = TRUE
    /\ raw_mode = TRUE
    /\ cursor_visible = FALSE
    /\ screen_clear = TRUE
    /\ datetime = NoDateTime
    /\ tick_interval = 0
    /\ degree = NoDegree
    /\ options = NoOptions
    /\ \E width \in 1 .. MaxSide, height \in 1 .. MaxSide :
           matrix = Matrix_new(width, height)
    /\ draw_step = "draw_circle"
    /\ layers = NoLayers
    /\ hand \in GeoHands
    /\ circle_points = <<>>
    /\ hand_points = <<>>

\* clock.rs:228-238: every point of the circle indexes cells[y][x]; an index
\* outside the grid panics.
draw_circle ==
    /\ draw_step = "draw_circle"
    /\ circle_points' = CirclePoints(matrix)
    /\ IF \A i \in 1 .. Len(circle_points') :
              InGrid(matrix, circle_points'[i][1], circle_points'[i][2])
       THEN /\ matrix' = draw_using_points(matrix,
                             [i \in 1 .. Len(circle_points') |->
                                 [x |-> circle_points'[i][1], y |-> circle_points'[i][2],
                                  color |-> Theme.clock_face]])
            /\ draw_step' = "draw_hand"
       ELSE /\ draw_step' = "panic_index"
            /\ UNCHANGED matrix
    /\ UNCHANGED <<options, layers, hand, hand_points, angle_vars, loop_vars>>

\* clock.rs:242-308, 390-395: every Point of the hand indexes
\* cells[point.y][point.x]; an index outside the grid panics.
draw_hand ==
    /\ draw_step = "draw_hand"
    /\ hand_points' = HandPoints(matrix, hand)
    /\ IF \A i \in 1 .. Len(hand_points') :
              InGrid(matrix, hand_points'[i].x, hand_points'[i].y)
       THEN /\ matrix' = draw_using_points(matrix, hand_points')
            /\ draw_step' = "drawn"
       ELSE /\ draw_step' = "panic_index"
            /\ UNCHANGED matrix
    /\ UNCHANGED <<options, layers, hand, circle_points, angle_vars, loop_vars>>

NextGeometry == draw_circle \/ draw_hand

SpecGeometry == InitGeometry /\ [][NextGeometry]_vars

(***************************************************************************)
(* Properties of the render loop.                                          *)
(***************************************************************************)
\* The positions of a frame.
Positions(m) == (0 .. m.width - 1) \X (0 .. m.height - 1)

\* The positions whose cell is painted.
Painted(m) == {p \in Positions(m) : m.cells[p[2]][p[1]] # None}

\* The indices of the updates of a list that address position p.
UpdatesAt(updates, p) ==
    {i \in 1 .. Len(updates) : updates[i].x = p[1] /\ updates[i].y = p[2]}

\* C1: between two frames of equal dimensions, Matrix::diff returns exactly
\* one update (x, y, N[y][x]) for every position where the frames differ and
\* none where they agree; identical frames give the empty list, and an
\* all-empty previous frame gives one update per painted cell of the new one.
C1_DiffExact ==
    pc = "print" =>
        LET P == current_matrix
            N == new_matrix
            changed == {p \in Positions(N) : P.cells[p[2]][p[1]] # N.cells[p[2]][p[1]]}
        IN  /\ \A p \in changed :
                /\ Cardinality(UpdatesAt(diff, p)) = 1
                /\ \A i \in UpdatesAt(diff, p) : diff[i].cell = N.cells[p[2]][p[1]]
            /\ \A p \in Positions(N) \ changed : UpdatesAt(diff, p) = {}
            /\ Len(diff) = Cardinality(changed)
            /\ P.cells = N.cells => diff = <<>>
            /\ Painted(P) = {} => Len(diff) = Cardinality(Painted(N))

\* C1 witness: a diff of two frames of several cells whose only update gives a
\* painted cell another colour; the other cells are equal and get none.
C1_Witness ==
    /\ pc = "print"
    /\ Len(diff) = 1
    /\ diff[1].cell # None
    /\ current_matrix.cells[diff[1].y][diff[1].x] \notin {None, diff[1].cell}
    /\ Cardinality(Positions(new_matrix)) > 1

\* C2 (as claimed): Matrix::diff never sees frames of different dimensions.
C2_NoDimensionMismatch ==
    /\ pc # "panic_diff"
    /\ pc = "diff" => ~DimensionMismatch(current_matrix, new_matrix)

\* C3: the diff of an iteration is computed against exactly the frame that
\* was rendered last (or the empty frame made at startup or by a resize);
\* one frame is drawn per iteration; the retained frame changes only as a
\* whole: to the new frame once its diff has been printed, or to an empty
\* frame when a resize event is read.
C3_SequentialFrames ==
    /\ [](pc = "diff" => current_matrix = rendered)
    /\ [][/\ current_matrix' # current_matrix =>
                \/ pc = "term_size"
                \/ pc = "assign" /\ current_matrix' = new_matrix
                                 /\ rendered = new_matrix
                \/ pc = "poll" /\ event'.kind = "resize"
                               /\ current_matrix' = Matrix_new(event'.width, event'.height)
          /\ new_matrix' # new_matrix =>
                \/ pc = "draw" /\ new_matrix = NoMatrix
                \/ pc = "assign" /\ new_matrix' = NoMatrix
          /\ rendered' # rendered =>
                \/ pc = "term_size"
                \/ pc = "print" /\ rendered' = new_matrix
                \/ pc = "poll" /\ event'.kind = "resize"]_vars

\* C3 witness: a diff is about to be computed against a painted frame that
\* was rendered in the iteration before.
C3_Witness ==
    /\ pc = "diff"
    /\ current_matrix = rendered
    /\ Painted(rendered) # {}
    /\ new_matrix # current_matrix

\* C4: once a resize event is read, the retained frame is the empty frame of
\* the event's dimensions and the screen is clear, and the update list of that
\* iteration holds exactly one update for every painted cell of the new frame.
C4_ResizeRepaints ==
    (event.kind = "resize" /\ pc \in {"draw", "diff", "print"}) =>
        /\ current_matrix = Matrix_new(event.width, event.height)
        /\ screen_clear
        /\ pc = "print" =>
              /\ Len(diff) = Cardinality(Painted(new_matrix))
              /\ \A p \in Painted(new_matrix) :
                    \E i \in 1 .. Len(diff) :
                        /\ diff[i].x = p[1] /\ diff[i].y = p[2]
                        /\ diff[i].cell = new_matrix.cells[p[2]][p[1]]

\* C4 witness: the full repaint after a resize, of a frame with a painted cell.
C4_Witness ==
    /\ event.kind = "resize"
    /\ pc = "print"
    /\ diff # <<>>
    /\ Len(diff) = Cardinality(Painted(new_matrix))

\* C5 (as claimed): after a quit key the process has ended with the cursor
\* visible, raw mode off and the screen cleared.
C5_QuitRestoresTerminal ==
    pc = "exited" => cursor_visible /\ ~raw_mode /\ screen_clear

\* C6: the aspect ratio is strictly positive after any sequence of keys.
C6_RatioPositive == aspect_ratio > 0

\* C6 witness: `-` has brought the ratio to its floor, where a further `-`
\* leaves it alone.
C6_Witness ==
    /\ pc = "draw"
    /\ event.kind = "key"
    /\ aspect_ratio <= One
    /\ KeyRatio("-", aspect_ratio) = aspect_ratio

\* The terminal widths the logical clock width is compared on.
Widths == 1 .. MaxCells

\* C7 (as claimed): `+` and `=` increase the logical clock width
\* terminal_width / aspect_ratio of the next frame, `-` decreases it.
C7_PlusWidensLogicalWidth ==
    [][/\ (\E k \in {"+", "="} : ReadKey(k)) =>
              ClockWidth(term[1], aspect_ratio') >= ClockWidth(term[1], aspect_ratio)
       /\ ReadKey("-") =>
              ClockWidth(term[1], aspect_ratio') <= ClockWidth(term[1], aspect_ratio)]_vars

\* C7 (amended): `+` and `=` raise the aspect ratio, so the logical clock width
\* never grows; `-` lowers the ratio while it is above 1.0 and leaves it alone
\* otherwise, so the logical clock width never shrinks.
C7_PlusNarrowsLogicalWidth ==
    [][/\ (\E k \in {"+", "="} : ReadKey(k)) =>
              /\ aspect_ratio' > aspect_ratio
              /\ \A w \in Widths :
                    ClockWidth(w, aspect_ratio') <= ClockWidth(w, aspect_ratio)
       /\ ReadKey("-") =>
              /\ aspect_ratio > One => aspect_ratio' < aspect_ratio
              /\ aspect_ratio <= One => aspect_ratio' = aspect_ratio
              /\ \A w \in Widths :
                    ClockWidth(w, aspect_ratio') >= ClockWidth(w, aspect_ratio)]_vars

\* C7 witness: `+` has been read and the next frame is drawn on a narrower
\* logical width than at the default ratio.
C7_Witness ==
    /\ pc = "draw"
    /\ event.kind = "key"
    /\ aspect_ratio > Two
    /\ ClockWidth(term[1], aspect_ratio) < ClockWidth(term[1], Two)

\* C9 (as claimed): a failed print does not stop the loop.
C9_PrintErrorIgnored == pc # "err_print"

\* C9 (amended): a failed print ends the loop: run_clock returns the error
\* and nothing happens after it; the loop goes on only after a print that
\* succeeded.
C9_PrintErrorEndsLoop ==
    [][/\ (pc = "print" /\ pc' # pc /\ ~io_ok /\ diff # <<>>) =>
              pc' = "err_print" /\ current_matrix' = current_matrix
       /\ (pc = "print" /\ pc' = "assign") => (io_ok \/ diff = <<>>)
       /\ pc = "err_print" => UNCHANGED vars]_vars

\* C9 witness: run_clock has returned the error of a failed print.
C9_Witness == pc = "err_print"

\* C14: for a terminal that has a column at the default ratio, the logical
\* clock width terminal_width / aspect_ratio, truncated, that draw_clock
\* computes is at least 1 after any sequence of `+`, `=`, `-` and `0` keys.
C14_ClockWidthPositive ==
    pc = "draw" /\ ClockWidth(term[1], Two) >= 1 =>
        ClockWidth(term[1], aspect_ratio) >= 1

\* What a screen that shows frame m shows at position p: the frame's cell,
\* and nothing outside the frame.
FrameCell(m, p) ==
    IF p \in Positions(m) THEN m.cells[p[2]][p[1]] ELSE None

\* Every cell of the screen that no text has garbled shows frame m.
ScreenShows(m) ==
    \A p \in ScreenPositions : screen[p] # Garbled => screen[p] = FrameCell(m, p)

\* C15: with the screen a grid changed only by the clear commands and by the
\* updates Matrix::print writes, once an iteration has printed its diff the
\* screen equals the new frame cell for cell, and at the start of every
\* iteration it equals the retained frame; a cell of the screen is garbled
\* only by the text printed for a mouse event, so with key, resize and
\* timeout events alone this is the whole screen.
C15_ScreenEqualsFrame ==
    /\ [](/\ pc = "assign" => ScreenShows(new_matrix)
          /\ pc = "poll" => ScreenShows(current_matrix))
    /\ [][\A p \in ScreenPositions :
            screen'[p] = Garbled /\ screen[p] # Garbled => event'.kind = "mouse"]_vars

\* C15 witness: an iteration has printed a diff that changed a painted
\* screen no text was ever written to, and the whole screen equals the new
\* frame.
C15_Witness ==
    /\ pc = "assign"
    /\ \A p \in ScreenPositions : screen[p] = FrameCell(new_matrix, p)
    /\ Painted(new_matrix) # {}
    /\ Painted(current_matrix) # {}
    /\ Painted(current_matrix) \ Painted(new_matrix) # {}
    /\ event.kind \in {"key", "timeout"}

(***************************************************************************)
(* Properties of the drawing steps.                                        *)
(***************************************************************************)
\* The steps, by their place in the claimed order, that are enabled and have
\* rasterised position p.
Covering(p) ==
    {i \in DOMAIN Steps : StepEnabled(Steps[i], options) /\ p \in layers[Steps[i]]}

Last(S) == CHOOSE i \in S : \A j \in S : j <= i

\* C8: the steps are applied in the order circle, hour labels, minute labels,
\* minute hand, hour hand, second hand, a later step overwriting an earlier
\* one: when the matrix is ready for rescaling, a cell no enabled step covers
\* is empty, and every other cell has the colour of the last enabled step
\* that covers it.
C8_LaterStepWins ==
    draw_step = "rescale" =>
        \A p \in Positions(matrix) :
            matrix.cells[p[2]][p[1]] =
                IF Covering(p) = {} THEN None ELSE StepColor(Steps[Last(Covering(p))])

\* C8 witness: a cell that the circle, the minute hand, the hour hand and the
\* second hand all cover ends in the colour of the second hand, and a cell
\* that only the minute and hour hands cover in the colour of the hour hand.
C8_Witness ==
    /\ draw_step = "rescale"
    /\ \E p \in Positions(matrix) :
          /\ Covering(p) = {1, 4, 5, 6}
          /\ matrix.cells[p[2]][p[1]] = Theme.second
    /\ \E p \in Positions(matrix) :
          /\ Covering(p) = {4, 5}
          /\ matrix.cells[p[2]][p[1]] = Theme.hour

\* Whether the rows and columns of the cells are those of width and height.
WellFormed(m) ==
    /\ DOMAIN m.cells = 0 .. m.height - 1
    /\ \A y \in DOMAIN m.cells : DOMAIN m.cells[y] = 0 .. m.width - 1

\* C11: Matrix::rescale returns a frame of the height of its source and of
\* the screen width it was given, so the frame draw_clock returns has the
\* dimensions of the terminal, in its fields and in its cells.
C11_RescaleDimensions ==
    /\ [](draw_step = "done" =>
            /\ matrix.width = term[1]
            /\ matrix.height = term[2]
            /\ WellFormed(matrix))
    /\ [][draw_step' = "done" =>
            /\ matrix'.height = matrix.height
            /\ matrix'.width = term[1]
            /\ WellFormed(matrix')]_vars

\* C11 witness: a narrowed matrix of one painted column has been stretched
\* to a terminal two columns wide.
C11_Witness ==
    /\ draw_step = "done"
    /\ term[1] = 2
    /\ ClockWidth(term[1], aspect_ratio) = 1
    /\ Painted(matrix) = Positions(matrix)

(***************************************************************************)
(* Properties of the geometry.                                             *)
(***************************************************************************)
\* The row draw_circle indexes for the centre it gives to BresenhamCircle.
CircleCenterRow(m) == F32Trunc(F32Positive(midpoint_y(m)))

\* The row draw_hand indexes for the start point of the line from the
\* centre origin.
HandStartRow(m, h) ==
    m.height - startpoint(m, h, <<F32Positive(midpoint_x(m)), F32Positive(midpoint_y(m))>>)[2]

\* C12: every point of the circle and of a hand is indexed at the row
\* height - y, so that the centre of the circle and the start point of a
\* thin hand drawn from the centre are on the same row, for every height.
\* Stated for the matrices on which a circle and a hand have been drawn.
C12_YInvertedOnce ==
    draw_step = "drawn" /\ circle_points # <<>> /\ hand_points # <<>> =>
        /\ \A i \in 1 .. Len(circle_points) :
              InGrid(matrix, circle_points[i][1], matrix.height - circle_points[i][2])
                  => matrix.cells[matrix.height - circle_points[i][2]][circle_points[i][1]] # None
        /\ hand.thickness = "Thin" /\ hand.line_start = "FromCenter"
              => CircleCenterRow(matrix) = HandStartRow(matrix, hand)

\* C13: no Point a hand or a label gives to draw_using_points lies outside
\* the grid.
C13_HandIndicesInGrid ==
    \A i \in 1 .. Len(hand_points) :
        InGrid(matrix, hand_points[i].x, hand_points[i].y)

(***************************************************************************)
(* Properties of the hand angles.                                          *)
(***************************************************************************)
\* floor(x * 2^10) for an f32 x below 2^14.
Fixed10(x) == IF x[1] <= 0 THEN 0 ELSE x[1] \div Pow2(0 - (x[2] + 10))

\* The f32 x is the angle k / 10000 degrees to within 2^-9 degree.
NearDegrees(x, k) ==
    LET delta == Fixed10(x) * 625 - k * 64
    IN  delta <= 1250 /\ 0 - delta <= 1250

\* The second of the time in milliseconds, with the millisecond fraction only
\* for a tick interval below 1000 ms.
SecondMillis(dt, tick) ==
    IF tick < 1000 THEN dt.second * 1000 + dt.millisecond ELSE dt.second * 1000

\* C10: the angles are hour = (hour % 12 + min / 60) / 12 * 360,
\* minute = (min + sec / 60) / 60 * 360 and second = sec / 60 * 360 (in units of
\* 1/10000 degree: 300000 * (hour % 12) + 5000 * min, 60000 * min + sec in ms,
\* 60 * sec in ms), where sec has the millisecond fraction only when the tick
\* interval is below 1000 ms; all three lie in [0, 360); 03:00:00.000 gives
\* exactly 90, 0, 0 and 00:30:00 gives minute 180 and hour 15.
C10_HandAngles ==
    degree # NoDegree =>
        LET sec == SecondMillis(datetime, tick_interval)
        IN  /\ NearDegrees(degree.second, 60 * sec)
            /\ NearDegrees(degree.minute, 60000 * datetime.minute + sec)
            /\ NearDegrees(degree.hour,
                           300000 * (datetime.hour % 12) + 5000 * datetime.minute)
            /\ \A a \in {degree.second, degree.minute, degree.hour} :
                    a[1] >= 0 /\ F32Less(a, F32FromInt(360))
            /\ datetime = DateTime(3, 0, 0, 0) =>
                    /\ degree.hour = F32FromInt(90)
                    /\ degree.minute = F32Zero
                    /\ degree.second = F32Zero
            /\ (datetime.hour = 0 /\ datetime.minute = 30 /\ sec = 0) =>
                    /\ degree.minute = F32FromInt(180)
                    /\ degree.hour = F32FromInt(15)

\* C10 witness: the angles of 12:30:00.500 with a one second tick: the
\* millisecond is dropped, the minute hand is at 180 and the hour hand at 15.
C10_Witness ==
    /\ datetime = DateTime(12, 30, 0, 500)
    /\ tick_interval = 1000
    /\ degree.second = F32Zero
    /\ degree.minute = F32FromInt(180)
    /\ degree.hour = F32FromInt(15)

=============================================================================
